---- MODULE Spec2Model ----
(***************************************************************************)
(* Model of ldapcherry's Active Directory backend                          *)
(* (src/ldapcherry/backend/backendAD.py).                                  *)
(*                                                                         *)
(* One Backend instance is constructed from a configuration and is then    *)
(* used by a few request threads.  Every directory primitive (connect,     *)
(* bind, search, modify, unbind) issued by backendAD.py is one step of the *)
(* calling thread, so the operations of different threads interleave.      *)
(* The directory server is part of the state: user entries, group entries  *)
(* and their member lists.  Methods inherited from                         *)
(* ldapcherry.backend.backendLdap.Backend are not part of the modelled     *)
(* file; they are modelled as single steps after the system description.   *)
(*                                                                         *)
(* Text is a TLA+ string, a password is the sequence of its Unicode code   *)
(* points, a byte string is a sequence of numbers below 256, a dotted      *)
(* domain name is the sequence of its labels.  The byte/text conversions  *)
(* _byte_p2 and _uni leave a text unchanged and are not represented.       *)
(*                                                                         *)
(* The role engine (ldapcherry.roles.Roles, exercised by                   *)
(* src/tests/test_Roles.py) is modelled next to the backend as its own     *)
(* specification, RolesSpec, after the system description: Load validates  *)
(* a role file into a catalog, Resolve merges selected roles per backend.  *)
(***************************************************************************)
EXTENDS Integers, Sequences, FiniteSets, TLC

\* ------------------------------------------------------------------ bounds

\* Invocations of adapter operations in one behaviour.
MaxCalls == 2

\* The request threads that use the one Backend instance.
Threads == 1..2

\* Role records in one role file.
MaxRoles == 3

\* Role keys in one selection handed to Resolve.
MaxSelected == 3

\* ------------------------------------------------------- module constants

NO_ATTR == 0

\* UserAccountControl flag values (lines 41-62).
SCRIPT == 1
ACCOUNTDISABLE == 2
HOMEDIR_REQUIRED == 8
LOCKOUT == 16
PASSWD_NOTREQD == 32
PASSWD_CANT_CHANGE == 64
ENCRYPTED_TEXT_PWD_ALLOWED == 128
TEMP_DUPLICATE_ACCOUNT == 256
NORMAL_ACCOUNT == 512
INTERDOMAIN_TRUST_ACCOUNT == 2048
WORKSTATION_TRUST_ACCOUNT == 4096
SERVER_TRUST_ACCOUNT == 8192
DONT_EXPIRE_PASSWORD == 65536
MNS_LOGON_ACCOUNT == 131072
SMARTCARD_REQUIRED == 262144
TRUSTED_FOR_DELEGATION == 524288
NOT_DELEGATED == 1048576
USE_DES_KEY_ONLY == 2097152
DONT_REQ_PREAUTH == 4194304
PASSWORD_EXPIRED == 8388608
TRUSTED_TO_AUTH_FOR_DELEGATION == 16777216
PARTIAL_SECRETS_ACCOUNT == 67108864

\* The named flag values, in the order of the source.
UserAccountControlFlags ==
    << SCRIPT, ACCOUNTDISABLE, HOMEDIR_REQUIRED, LOCKOUT,
       PASSWD_NOTREQD, PASSWD_CANT_CHANGE, ENCRYPTED_TEXT_PWD_ALLOWED,
       TEMP_DUPLICATE_ACCOUNT, NORMAL_ACCOUNT,
       INTERDOMAIN_TRUST_ACCOUNT, WORKSTATION_TRUST_ACCOUNT,
       SERVER_TRUST_ACCOUNT, DONT_EXPIRE_PASSWORD, MNS_LOGON_ACCOUNT,
       SMARTCARD_REQUIRED, TRUSTED_FOR_DELEGATION, NOT_DELEGATED,
       USE_DES_KEY_ONLY, DONT_REQ_PREAUTH, PASSWORD_EXPIRED,
       TRUSTED_TO_AUTH_FOR_DELEGATION, PARTIAL_SECRETS_ACCOUNT >>

AD_BUILTIN_GROUPS_LIST ==
    << "Pre-Windows 2000 Compatible Access",
       "Windows Authorization Access Group",
       "Certificate Service DCOM Access",
       "Network Configuration Operators",
       "Terminal Server License Servers",
       "Incoming Forest Trust Builders",
       "Performance Monitor Users",
       "Cryptographic Operators",
       "Distributed COM Users",
       "Performance Log Users",
       "Remote Desktop Users",
       "Account Operators",
       "Event Log Readers",
       "Backup Operators",
       "Server Operators",
       "Print Operators",
       "Administrators",
       "Replicator",
       "IIS_IUSRS",
       "Guests",
       "Users" >>

\* ---------------------------------------------------------------- helpers

RECURSIVE Join(_, _)
\* sep.join(parts)
Join(parts, sep) ==
    IF Len(parts) = 0 THEN ""
    ELSE IF Len(parts) = 1 THEN parts[1]
    ELSE parts[1] \o sep \o Join(Tail(parts), sep)

\* x in list
InList(x, list) == \E i \in 1..Len(list) : list[i] = x

Range(s) == {s[i] : i \in 1..Len(s)}

RECURSIVE Flatten(_)
\* concatenation of a sequence of sequences
Flatten(ss) == IF Len(ss) = 0 THEN <<>> ELSE Head(ss) \o Flatten(Tail(ss))

\* str.encode('utf-16-le') of one code point: one 16-bit unit, low byte
\* first, or a surrogate pair for a code point beyond the basic plane.
Utf16leUnit(u) == << u % 256, u \div 256 >>
Utf16leChar(c) ==
    IF c < 65536 THEN Utf16leUnit(c)
    ELSE Utf16leUnit(55296 + ((c - 65536) \div 1024))
         \o Utf16leUnit(56320 + ((c - 65536) % 1024))
Utf16le(text) == Flatten([i \in 1..Len(text) |-> Utf16leChar(text[i])])

\* The double quote character.
QUOTE == 34

\* ldap.filter.escape_filter_chars on the user names of the model: the
\* characters \ * ( ) and NUL are replaced by a backslash and two hex digits.
escape_filter_chars(s) ==
    CASE s = "b*b" -> "b\\2ab"
      [] OTHER -> s

\* ------------------------------------------------------------------ inputs

\* Domain names the adapter may be configured with.
Domains == { <<"dc", "ldapcherry", "org">>, <<"example", "com">> }

\* The user identities and passwords auth is called with.
Logins ==
    { [username |-> "alice", password |-> <<112, 119>>],
      [username |-> "alice", password |-> <<233, 128273>>],
      [username |-> "b*b", password |-> <<233, 128273>>] }

\* Attribute lists (the keys of attributes.yml for this backend).
AttrLists ==
    { <<"unicodePwd", "mail", "cn">>,
      <<"sAMAccountName", "cn">>,
      <<"unicodePwd", "sAMAccountName">>,
      <<"mail">> }

\* Logical user keys passed by callers; only some have a directory entry.
UserNames == {"alice", "b*b"}

\* Passwords as code points: "pw", and e-acute followed by U+1F511.
Passwords == { <<112, 119>>, <<233, 128273>> }

EmptyMap == [k \in {} |-> ""]

\* Attribute mappings passed to add_user.
NewUserAttrs ==
    { [sAMAccountName |-> "b*b", cn |-> "Bob", unicodePwd |-> <<233, 128273>>],
      [sAMAccountName |-> "alice", cn |-> "Alice", unicodePwd |-> <<112, 119>>],
      [sAMAccountName |-> "b*b", cn |-> "Bob"] }

\* Attribute mappings passed to set_attrs.
ChangedAttrs ==
    { [mail |-> "a@example.com"],
      [unicodePwd |-> <<233, 128273>>, mail |-> "a@example.com"] }

\* Group name lists passed to add_to_groups and del_from_groups.
GroupLists == { <<"devs", "Users", "devs">>, <<"Administrators", "users">> }

\* Outcomes of a directory primitive other than success.
NetworkErrors == {"SERVER_DOWN"}

\* ------------------------------------------------------------------- state

VARIABLES
    config,             \* the configuration handed to the constructor
    constructed,        \* "no", "ok", or the exception __init__ raised
    self,               \* the fields of the Backend instance
    ad_builtin_groups,  \* the module global AD_BUILTIN_GROUPS
    dir_users,          \* directory: DN -> user entry
    dir_groups,         \* directory: sequence of group entries
    sessions,           \* every directory session opened so far
    th,                 \* per thread: the running invocation and its locals
    ncalls,             \* invocations started so far
    role_file,          \* the role configuration source handed to the role engine
    roles,              \* the outcome of loading it: the catalog, or the error
    resolved            \* the outcome of the last Resolve

vars == << config, constructed, self, ad_builtin_groups, dir_users, dir_groups,
           sessions, th, ncalls, role_file, roles, resolved >>

adapter_vars == << config, constructed, self, ad_builtin_groups, dir_users,
                   dir_groups, sessions, th, ncalls >>
role_vars == << role_file, roles, resolved >>

backend_vars == << config, constructed, self, ad_builtin_groups >>
dir_vars == << dir_users, dir_groups >>

\* ------------------------------------------------------ derived DN strings

\* line 107: 'dc=' + re.sub(r'\.', ',DC=', self.domain)
basedn(domain) == "dc=" \o Join(domain, ",DC=")
\* line 115: 'OU=Users,OU=' + self.domain.split(".")[0] + "," + basedn
userdn_of(domain) == "OU=Users,OU=" \o domain[1] \o "," \o basedn(domain)
\* line 117: 'CN=Builtin,' + basedn
builtin_of(domain) == "CN=Builtin," \o basedn(domain)
\* the dotted text of a domain
DomainText(domain) == Join(domain, ".")

\* 'CN=%(cn)s,%(user_dn)s'
UserEntryDn(cn, user_dn) == "CN=" \o cn \o "," \o user_dn

\* The value AD stores for a password: the quoted text in UTF-16-LE.
StoredPassword(password) == Utf16le(<<QUOTE>> \o password \o <<QUOTE>>)

\* ------------------------------------------------------- initial directory

\* Group entries of the directory: ordinary groups live under the group
\* container, built-in groups under CN=Builtin; a common name is unique only
\* within its container.
GroupEntry(cn, parent, member) ==
    [dn |-> "cn=" \o cn \o "," \o parent, cn |-> cn, parent |-> parent,
     member |-> member]

\* The initial group memberships of alice in the directory of a domain, as
\* sets of indices into the group sequence below.
InitialMemberships(domain) ==
    IF domain = <<"example", "com">> THEN { {2, 3, 4} } ELSE { {1} }

InitialGroups(domain, m) ==
    LET alice == UserEntryDn("Alice", userdn_of(domain))
        mem(i) == IF i \in m THEN {alice} ELSE {}
    IN  << GroupEntry("devs", userdn_of(domain), mem(1)),
           GroupEntry("Users", userdn_of(domain), mem(2)),
           GroupEntry("Users", builtin_of(domain), mem(3)),
           GroupEntry("Administrators", builtin_of(domain), mem(4)) >>

UserEntry(sam, cn, upn, pwd, uac) ==
    [sAMAccountName |-> sam, cn |-> cn, userPrincipalName |-> upn,
     unicodePwd |-> pwd, UserAccountControl |-> uac, mail |-> ""]

InitialUsers(domain) ==
    UserEntryDn("Alice", userdn_of(domain)) :>
        UserEntry("alice", "Alice", "alice@" \o DomainText(domain),
                  StoredPassword(<<112, 119>>), "512")

NoResult == [kind |-> "none", val |-> "", exc |-> ""]
Returned(v) == [kind |-> "return", val |-> v, exc |-> ""]
Raised(e) == [kind |-> "raise", val |-> "", exc |-> e]

IdleThread ==
    [op |-> "idle", pc |-> "idle", username |-> "", password |-> <<>>,
     attrs |-> EmptyMap, groups |-> <<>>, ldap_client |-> 0, userdn |-> "",
     searchfilter |-> "", which |-> 0, r |-> <<>>, found |-> "unknown",
     ret |-> NoResult, trace |-> <<>>, opened |-> {}]

NoSelf ==
    [domain |-> <<>>, login |-> "", binddn |-> "", userdn |-> "", groupdn |-> "",
     builtin |-> "", dn_user_attr |-> "", key |-> "", attrlist |-> <<>>]

\* The role engine before a role file is loaded.
NoRolesFile == [exists |-> FALSE, records |-> <<>>]
NotLoaded == [kind |-> "none", exc |-> "", catalog |-> EmptyMap]
NotResolved == [kind |-> "none", exc |-> "", selected |-> <<>>, delta |-> EmptyMap]

Init ==
    /\ config \in [domain : Domains, login : {"administrator"}, attrslist : AttrLists]
    /\ constructed = "no"
    /\ self = NoSelf
    /\ ad_builtin_groups = AD_BUILTIN_GROUPS_LIST
    /\ dir_users = InitialUsers(config.domain)
    /\ \E m \in InitialMemberships(config.domain) : dir_groups = InitialGroups(config.domain, m)
    /\ sessions = <<>>
    /\ th = [t \in Threads |-> IdleThread]
    /\ ncalls = 0
    /\ role_file = NoRolesFile
    /\ roles = NotLoaded
    /\ resolved = NotResolved

\* ------------------------------------------------------------ construction

\* The precondition as one test: only a list lacking both attributes fails.
RequiredAttrsCheck_both(attrlist) ==
    IF ~InList("cn", attrlist) /\ ~InList("unicodePwd", attrlist) THEN "MissingAttr"
    ELSE "ok"

\* lines 148-152: the required-attribute precondition.
RequiredAttrsCheck(attrlist) ==
    IF ~InList("cn", attrlist) THEN "MissingAttr"
    ELSE IF ~InList("unicodePwd", attrlist) THEN "MissingAttr"
    ELSE "ok"

\* Backend.__init__(config, logger, name, attrslist, key)
__init__ ==
    /\ constructed = "no"
    /\ self' = [domain |-> config.domain,
                login |-> config.login,
                binddn |-> config.login \o "@" \o DomainText(config.domain),
                userdn |-> userdn_of(config.domain),
                groupdn |-> userdn_of(config.domain),
                builtin |-> builtin_of(config.domain),
                dn_user_attr |-> "cn",
                key |-> "sAMAccountName",
                attrlist |-> [i \in 1..Len(config.attrslist) |-> config.attrslist[i]]]
    /\ constructed' = RequiredAttrsCheck(self'.attrlist)
    /\ UNCHANGED << role_vars, config, ad_builtin_groups, dir_vars, sessions, th, ncalls >>

\* ---------------------------------------------------------------- sessions

\* A directory session: Unbound after connect, Bound after a successful
\* bind, Closed after unbind_s; closes counts the unbind_s calls on it and
\* users the threads that called a primitive on it.
NewSession(t) == [owner |-> t, state |-> "Unbound", closes |-> 0, users |-> {t}]

SessOpened(ss, t) == Append(ss, NewSession(t))
SessBound(ss, s, t) ==
    [ss EXCEPT ![s].state = "Bound", ![s].users = @ \cup {t}]
SessUsed(ss, s, t) == [ss EXCEPT ![s].users = @ \cup {t}]
\* ldap_client.unbind_s()
unbind_s(ss, s, t) ==
    [ss EXCEPT ![s].state = "Closed", ![s].closes = @ + 1, ![s].users = @ \cup {t}]

\* One recorded step of an invocation: its outcome is "ok" or the error.
Step(name, outcome, dn, attr, value, attrs) ==
    [step |-> name, ok |-> outcome = "ok", err |-> outcome, dn |-> dn,
     attr |-> attr, value |-> value, attrs |-> attrs]

\* The outcome of a call that returned or raised.
Outcome(res) == IF res.kind = "return" THEN "ok" ELSE res.exc

Finish(rec, result) == [rec EXCEPT !.pc = "done", !.ret = result]

\* A thread may start an invocation on the constructed backend.  Threads are
\* interchangeable, so a thread is first used once the threads before it are.
CanCall(t) ==
    /\ constructed = "ok"
    /\ th[t].pc \in {"idle", "done"}
    /\ ncalls < MaxCalls
    /\ \A u \in Threads : u < t => th[u].op # "idle"

\* The session kept in an attribute of the one Backend instance: every
\* thread then works on the session bound last.
ldap_client_on_self(t) == Len(sessions)

\* lines 165, 193, 232, 298: ldap_client is a local variable of the running
\* invocation, the session that invocation obtained from _bind or _connect.
ldap_client(t) == th[t].ldap_client

\* ------------------------------------- inherited from the generic backend

\* self._connect(): a fresh, unbound session.
_connect(ss, t) == SessOpened(ss, t)

\* self._bind(): connect, then bind as the service identity; a failed bind
\* closes the session before the error is raised.
_bind(ss, t, outcome) ==
    LET s == Len(ss) + 1
    IN  IF outcome = "ok" THEN SessBound(SessOpened(ss, t), s, t)
        ELSE unbind_s(SessOpened(ss, t), s, t)

\* self._exception_handler(e): logs and raises e again.
_exception_handler(e) == Raised(e)

\* What simple_bind_s answers for a user identity and password when the
\* server is reachable.
CredentialCheck(binddn, password) ==
    IF \E dn \in DOMAIN dir_users :
          /\ dir_users[dn].userPrincipalName = binddn
          /\ dir_users[dn].unicodePwd = StoredPassword(password)
          /\ dir_users[dn].UserAccountControl = "512"
    THEN "ok"
    ELSE "INVALID_CREDENTIALS"

\* -------------------------------------------------------------------- auth

\* The bind identity of the generic dialect: the distinguished name of the
\* user's entry.
auth_binddn_as_dn(username, domain) == UserEntryDn(username, userdn_of(domain))

\* line 296
auth_binddn(username, domain) == username \o "@" \o DomainText(domain)

\* auth with a bare except clause: every failed bind is a False.
auth_handler_bare_except(outcome) ==
    IF outcome = "ok" THEN "bound" ELSE "return_false"

\* lines 299-308: what auth does with the outcome of simple_bind_s.
auth_handler(outcome) ==
    IF outcome = "ok" THEN "bound"
    ELSE IF outcome = "INVALID_CREDENTIALS" THEN "return_false"
    ELSE "propagate"

\* auth(username, password) is invoked.
auth_call(t) ==
    /\ CanCall(t)
    /\ \E l \in Logins :
         th' = [th EXCEPT ![t] = [IdleThread EXCEPT !.op = "auth",
                                     !.pc = "auth_connect",
                                     !.username = l.username,
                                     !.password = l.password]]
    /\ ncalls' = ncalls + 1
    /\ UNCHANGED << role_vars, backend_vars, dir_vars, sessions >>

\* lines 296-298
auth_connect(t) ==
    /\ th[t].pc = "auth_connect"
    /\ sessions' = _connect(sessions, t)
    /\ th' = [th EXCEPT ![t].pc = "auth_bind",
                        ![t].ldap_client = Len(sessions) + 1,
                        ![t].opened = @ \cup {Len(sessions) + 1}]
    /\ UNCHANGED << role_vars, backend_vars, dir_vars, ncalls >>

\* lines 299-306
auth_bind(t) ==
    /\ th[t].pc = "auth_bind"
    /\ LET binddn == auth_binddn(th[t].username, self.domain)
           s == ldap_client(t)
       IN  \E o \in {CredentialCheck(binddn, th[t].password)} \cup NetworkErrors :
             LET h == auth_handler(o)
                 rec == [th[t] EXCEPT !.trace =
                           Append(@, Step("simple_bind_s", o, binddn, "", o,
                                          EmptyMap))]
             IN  CASE h = "bound" ->
                        /\ sessions' = SessBound(sessions, s, t)
                        /\ th' = [th EXCEPT ![t] = [rec EXCEPT !.pc = "auth_unbind"]]
                   [] h = "return_false" ->
                        /\ sessions' = unbind_s(SessUsed(sessions, s, t), s, t)
                        /\ th' = [th EXCEPT ![t] = Finish(rec, Returned(FALSE))]
                   [] OTHER ->
                        /\ sessions' = SessUsed(sessions, s, t)
                        /\ th' = [th EXCEPT ![t] = Finish(rec, Raised(o))]
    /\ UNCHANGED << role_vars, backend_vars, dir_vars, ncalls >>

\* lines 307-308
auth_unbind(t) ==
    /\ th[t].pc = "auth_unbind"
    /\ sessions' = unbind_s(sessions, ldap_client(t), t)
    /\ th' = [th EXCEPT ![t] = Finish(th[t], Returned(TRUE))]
    /\ UNCHANGED << role_vars, backend_vars, dir_vars, ncalls >>

\* -------------------------------------------------------------- user lookup

\* The entries a (sAMAccountName=<key>) search matches: the key is a filter
\* value, so it names the entry whose escaped or literal name it is.
MatchingUsers(key) ==
    { dn \in DOMAIN dir_users :
        key \in { dir_users[dn].sAMAccountName,
                  escape_filter_chars(dir_users[dn].sAMAccountName) } }

\* self._get_user(username, NO_ATTR): the DN of the user's entry; an unknown
\* user is the typed does-not-exist condition, a directory error is raised.
_get_user(username, outcome) ==
    IF outcome # "ok" THEN Raised(outcome)
    ELSE IF MatchingUsers(username) = {} THEN Raised("UserDoesntExist")
    ELSE Returned(CHOOSE dn \in MatchingUsers(username) : TRUE)

\* Whether the directory holds an entry for the user, as a history value.
Found(username) == IF MatchingUsers(username) = {} THEN "no" ELSE "yes"

\* -------------------------------------------------------------- get_groups

\* line 119 and lines 273-276: self.group_filter_tmpl % {...}
group_filter(userdn) == "(member=" \o userdn \o ")"

\* ldap_client.search_s(groupdn, SCOPE_SUBTREE, searchfilter, ['CN']) on a
\* reachable server: the group entries below the base that the filter
\* matches, each as (dn, {'cn': [name]}).
search_s(base, searchfilter) ==
    LET Hit(g) == /\ g.parent = base
                  /\ \E m \in g.member : group_filter(m) = searchfilter
        hits == SelectSeq(dir_groups, Hit)
    IN  [i \in 1..Len(hits) |-> << hits[i].dn, [cn |-> << hits[i].cn >>] >>]

\* An except clause that closes the session and answers with no entries.
_search_group_except_swallow(e) == [closes |-> 1, res |-> Returned(<<>>)]

\* lines 173-178: the except clause of _search_group.  It closes the session
\* and hands the error to the handler, which raises it; were the handler to
\* return, line 177 would close the session again and line 178 would fail
\* on the unassigned r.
_search_group_except(e) ==
    LET h == _exception_handler(e)
    IN  IF h.kind = "raise" THEN [closes |-> 1, res |-> h]
        ELSE [closes |-> 2, res |-> Raised("UnboundLocalError")]

\* get_groups treating a user that was not found as no DN at all: the
\* searches go on with the text None in the filter.
get_groups_lookup_none(res) ==
    IF res.kind = "raise" /\ res.exc # "UserDoesntExist"
    THEN [next |-> "raise", userdn |-> ""]
    ELSE [next |-> "search", userdn |-> IF res.kind = "raise" THEN "None" ELSE res.val]

\* lines 271-276: get_groups after the lookup of the user's DN.
get_groups_lookup(res) ==
    IF res.kind = "raise" THEN [next |-> "raise", userdn |-> ""]
    ELSE [next |-> "search", userdn |-> res.val]

\* lines 290-292: the common name of every entry found, in order.
get_groups_ret(groups) == [i \in 1..Len(groups) |-> groups[i][2].cn[1]]

\* get_groups(username) is invoked.
get_groups_call(t) ==
    /\ CanCall(t)
    /\ \E u \in UserNames :
         th' = [th EXCEPT ![t] = [IdleThread EXCEPT !.op = "get_groups",
                                     !.pc = "gg_get_user", !.username = u]]
    /\ ncalls' = ncalls + 1
    /\ UNCHANGED << role_vars, backend_vars, dir_vars, sessions >>

\* lines 270-276
get_groups_get_user(t) ==
    /\ th[t].pc = "gg_get_user"
    /\ \E o \in {"ok"} \cup NetworkErrors :
         LET username == escape_filter_chars(th[t].username)
             res == _get_user(username, o)
             l == get_groups_lookup(res)
             rec == [th[t] EXCEPT
                        !.found = IF o = "ok" THEN Found(username) ELSE "unknown",
                        !.trace = Append(@, Step("_get_user", Outcome(res),
                                                 "", "", username, EmptyMap))]
         IN  IF l.next = "raise"
             THEN th' = [th EXCEPT ![t] = Finish(rec, res)]
             ELSE th' = [th EXCEPT ![t] =
                            [rec EXCEPT !.pc = "sg_bind", !.which = 1,
                                        !.userdn = l.userdn,
                                        !.searchfilter = group_filter(l.userdn)]]
    /\ UNCHANGED << role_vars, backend_vars, dir_vars, sessions, ncalls >>

\* line 165
_search_group_bind(t) ==
    /\ th[t].pc = "sg_bind"
    /\ \E o \in {"ok"} \cup NetworkErrors :
         LET s == Len(sessions) + 1
             rec == [th[t] EXCEPT !.opened = @ \cup {s},
                        !.trace = Append(@, Step("_bind", o, "", "", "",
                                                 EmptyMap))]
         IN  /\ sessions' = _bind(sessions, t, o)
             /\ IF o = "ok"
                THEN th' = [th EXCEPT ![t] =
                               [rec EXCEPT !.pc = "sg_search", !.ldap_client = s]]
                ELSE th' = [th EXCEPT ![t] = Finish(rec, Raised(o))]
    /\ UNCHANGED << role_vars, backend_vars, dir_vars, ncalls >>

\* lines 166-175; the search base is the group container in the first call
\* of get_groups (line 278) and the builtin container in the second (279).
_search_group_search(t) ==
    /\ th[t].pc = "sg_search"
    /\ \E o \in {"ok"} \cup NetworkErrors :
         LET s == ldap_client(t)
             base == IF th[t].which = 1 THEN self.groupdn ELSE self.builtin
             x == _search_group_except(o)
             res == IF o = "ok" THEN Returned(search_s(base, th[t].searchfilter))
                    ELSE x.res
             rec == [th[t] EXCEPT !.trace =
                        Append(@, Step("search_s", o, base, "",
                                       th[t].searchfilter, EmptyMap))]
         IN  /\ sessions' = IF o = "ok" THEN SessUsed(sessions, s, t)
                            ELSE IF x.closes = 1
                            THEN unbind_s(SessUsed(sessions, s, t), s, t)
                            ELSE unbind_s(unbind_s(SessUsed(sessions, s, t), s, t), s, t)
             /\ IF res.kind = "raise"
                THEN th' = [th EXCEPT ![t] = Finish(rec, res)]
                ELSE th' = [th EXCEPT ![t] =
                               [rec EXCEPT !.pc = IF o = "ok" THEN "sg_unbind"
                                                  ELSE "sg_return",
                                           !.r = res.val]]
    /\ UNCHANGED << role_vars, backend_vars, dir_vars, ncalls >>

\* lines 177-178, then line 278 or 279 of get_groups
_search_group_unbind(t) ==
    /\ th[t].pc \in {"sg_unbind", "sg_return"}
    /\ sessions' = IF th[t].pc = "sg_unbind"
                   THEN unbind_s(sessions, ldap_client(t), t)
                   ELSE sessions
    /\ IF th[t].which = 1
       THEN th' = [th EXCEPT ![t].pc = "sg_bind", ![t].which = 2,
                             ![t].groups = th[t].r, ![t].r = <<>>]
       ELSE th' = [th EXCEPT ![t].pc = "gg_return",
                             ![t].groups = @ \o th[t].r, ![t].r = <<>>]
    /\ UNCHANGED << role_vars, backend_vars, dir_vars, ncalls >>

\* lines 280-292
get_groups_return(t) ==
    /\ th[t].pc = "gg_return"
    /\ th' = [th EXCEPT ![t] = Finish(th[t], Returned(get_groups_ret(th[t].groups)))]
    /\ UNCHANGED << role_vars, backend_vars, dir_vars, sessions, ncalls >>

\* ------------------------------------------------ generic attribute path

\* The generic backend's encoding of a text value: UTF-8.
Utf8Char(c) ==
    IF c < 128 THEN << c >>
    ELSE IF c < 2048 THEN << 192 + (c \div 64), 128 + (c % 64) >>
    ELSE IF c < 65536
    THEN << 224 + (c \div 4096), 128 + ((c \div 64) % 64), 128 + (c % 64) >>
    ELSE << 240 + (c \div 262144), 128 + ((c \div 4096) % 64),
            128 + ((c \div 64) % 64), 128 + (c % 64) >>
Utf8(text) == Flatten([i \in 1..Len(text) |-> Utf8Char(text[i])])

\* del(attrs[k])
DictDel(attrs, k) == [x \in DOMAIN attrs \ {k} |-> attrs[x]]
\* attrs[k] = v
DictSet(attrs, k, v) == [x \in DOMAIN attrs \cup {k} |-> IF x = k THEN v ELSE attrs[x]]
\* attrs.get(k, d)
DictGet(attrs, k, d) == IF k \in DOMAIN attrs THEN attrs[k] ELSE d

\* The entry the generic creation path writes for an attribute mapping: a
\* new account has no password and is disabled until the directory is told
\* otherwise; a password handed to the generic path is stored as generic
\* text.
GenericEntry(attrs) ==
    [sAMAccountName |-> DictGet(attrs, "sAMAccountName", ""),
     cn |-> DictGet(attrs, "cn", ""),
     userPrincipalName |-> DictGet(attrs, "userPrincipalName", ""),
     unicodePwd |-> IF "unicodePwd" \in DOMAIN attrs THEN Utf8(attrs["unicodePwd"])
                    ELSE <<>>,
     UserAccountControl |-> "546",
     mail |-> DictGet(attrs, "mail", "")]

\* super(Backend, self).add_user(attrs): creates the entry named by the
\* display-name attribute under the user container, or raises.
generic_add_user(attrs, outcome) ==
    LET dn == UserEntryDn(attrs["cn"], self.userdn)
    IN  IF outcome # "ok" THEN [res |-> Raised(outcome), users |-> dir_users]
        ELSE IF dn \in DOMAIN dir_users
        THEN [res |-> Raised("ALREADY_EXISTS"), users |-> dir_users]
        ELSE [res |-> Returned("None"),
              users |-> (dn :> GenericEntry(attrs)) @@ dir_users]

\* super(Backend, self).set_attrs(username, attrs): replaces the attributes
\* of the user's entry; an unknown user is the typed does-not-exist
\* condition.
generic_set_attrs(username, attrs, outcome) ==
    LET lookup == _get_user(username, outcome)
        dn == lookup.val
        old == dir_users[dn]
    IN  IF lookup.kind = "raise" THEN [res |-> lookup, users |-> dir_users]
        ELSE [res |-> Returned("None"),
              users |-> [dir_users EXCEPT ![dn] =
                  [old EXCEPT
                     !.mail = DictGet(attrs, "mail", old.mail),
                     !.unicodePwd =
                        IF "unicodePwd" \in DOMAIN attrs
                        THEN Utf8(attrs["unicodePwd"]) ELSE old.unicodePwd]]]

\* The first position of a sequence of group DNs that names no group entry,
\* or 0.
FirstMissing(dns) ==
    LET known == { dir_groups[i].dn : i \in 1..Len(dir_groups) }
        bad == { i \in 1..Len(dns) : dns[i] \notin known }
    IN  IF bad = {} THEN 0 ELSE CHOOSE i \in bad : \A j \in bad : i <= j

\* super(Backend, self).add_to_groups / del_from_groups (username, groups):
\* changes the member list of each named group entry in order; an unknown
\* user or group is the typed does-not-exist condition.
generic_change_groups(username, dns, add, outcome) ==
    LET lookup == _get_user(username, outcome)
        userdn == lookup.val
        miss == FirstMissing(dns)
        done == IF miss = 0 THEN Range(dns) ELSE { dns[i] : i \in 1..(miss - 1) }
    IN  IF lookup.kind = "raise" THEN [res |-> lookup, groups |-> dir_groups]
        ELSE [res |-> IF miss = 0 THEN Returned("None") ELSE Raised("GroupDoesntExist"),
              groups |-> [i \in 1..Len(dir_groups) |->
                  IF dir_groups[i].dn \in done
                  THEN [dir_groups[i] EXCEPT !.member =
                           IF add THEN @ \cup {userdn} ELSE @ \ {userdn}]
                  ELSE dir_groups[i]]]

\* ldap_client.modify_s(dn, [(MOD_REPLACE, attr, [value])]) on a reachable
\* server.
modify_s(dn, attr, value) ==
    IF dn \notin DOMAIN dir_users
    THEN [res |-> "NO_SUCH_OBJECT", users |-> dir_users]
    ELSE [res |-> "ok",
          users |-> [dir_users EXCEPT ![dn] =
              IF attr = "unicodePwd" THEN [@ EXCEPT !.unicodePwd = value]
              ELSE IF attr = "UserAccountControl"
              THEN [@ EXCEPT !.UserAccountControl = value]
              ELSE @]]

\* ---------------------------------------------------------------- add_user

\* add_user without the del of line 225: the password stays in the mapping.
add_user_attrs_keep_password(attrs, domain) ==
    LET a2 == DictSet(attrs, "userPrincipalName",
                      attrs["sAMAccountName"] \o "@" \o DomainText(domain))
    IN  DictSet(a2, "displayName", attrs["cn"])

\* lines 225-229: the mapping handed to the generic creation path.
add_user_attrs(attrs, domain) ==
    LET a1 == DictDel(attrs, "unicodePwd")
        a2 == DictSet(a1, "userPrincipalName",
                      attrs["sAMAccountName"] \o "@" \o DomainText(domain))
    IN  DictSet(a2, "displayName", attrs["cn"])

\* line 239: '"{}"'.format(password).encode('utf-16-le')
add_user_encoded_password(password) ==
    Utf16le(<<QUOTE>> \o password \o <<QUOTE>>)

\* The account-state value of a normal account that is disabled:
\* NORMAL_ACCOUNT | ACCOUNTDISABLE.
add_user_account_control_disabled == "514"

\* lines 245-249: the account-state value add_user writes, the text b'512'.
add_user_account_control == "512"

\* add_user with the password modification wrapped in a try/except that
\* passes: the account is enabled whether or not the password was set.
add_user_next_ignore_password(pc, ok) ==
    IF ~ok /\ pc # "au_password" THEN "raise"
    ELSE CASE pc = "au_super" -> "au_bind"
           [] pc = "au_bind" -> "au_password"
           [] pc = "au_password" -> "au_enable"
           [] pc = "au_enable" -> "au_unbind"

\* add_user with its two follow-up modifications in the other order: the
\* account is enabled first, the password is set after that.
add_user_next_enable_first(pc, ok) ==
    IF ~ok THEN "raise"
    ELSE CASE pc = "au_super" -> "au_bind"
           [] pc = "au_bind" -> "au_enable"
           [] pc = "au_enable" -> "au_password"
           [] pc = "au_password" -> "au_unbind"

\* lines 230-251: where add_user goes after a step, given whether the step
\* succeeded; an exception of any step propagates to the caller.
add_user_next(pc, ok) ==
    IF ~ok THEN "raise"
    ELSE CASE pc = "au_super" -> "au_bind"
           [] pc = "au_bind" -> "au_password"
           [] pc = "au_password" -> "au_enable"
           [] pc = "au_enable" -> "au_unbind"

\* add_user cleaning up after a failed follow-up: the session is dropped and
\* the call returns as if nothing had happened.
add_user_goto_swallow(rec, pc, ok, err) ==
    LET n == add_user_next(pc, ok)
    IN  IF n = "raise"
        THEN IF pc \in {"au_password", "au_enable"}
             THEN Finish(rec, Returned("None")) ELSE Finish(rec, Raised(err))
        ELSE [rec EXCEPT !.pc = n]

\* lines 230-251: the thread's record after a step of add_user that ended
\* with the given error: the error propagates, or the next step follows.
add_user_goto(rec, pc, ok, err) ==
    LET n == add_user_next(pc, ok)
    IN  IF n = "raise" THEN Finish(rec, Raised(err)) ELSE [rec EXCEPT !.pc = n]

\* add_user(attrs) is invoked.
add_user_call(t) ==
    /\ CanCall(t)
    /\ \E a \in NewUserAttrs :
         th' = [th EXCEPT ![t] = [IdleThread EXCEPT !.op = "add_user",
                                     !.pc = "au_prepare", !.attrs = a]]
    /\ ncalls' = ncalls + 1
    /\ UNCHANGED << role_vars, backend_vars, dir_vars, sessions >>

\* lines 224-229
add_user_prepare(t) ==
    /\ th[t].pc = "au_prepare"
    /\ IF "unicodePwd" \notin DOMAIN th[t].attrs
       THEN th' = [th EXCEPT ![t] = Finish(th[t], Raised("KeyError"))]
       ELSE LET a == add_user_attrs(th[t].attrs, self.domain)
            IN  th' = [th EXCEPT ![t].pc = "au_super",
                                 ![t].password = th[t].attrs["unicodePwd"],
                                 ![t].attrs = a,
                                 ![t].trace = Append(@, Step("inject", "ok", "",
                                     "userPrincipalName",
                                     DictGet(a, "userPrincipalName", ""), a))]
    /\ UNCHANGED << role_vars, backend_vars, dir_vars, sessions, ncalls >>

\* line 230
add_user_super(t) ==
    /\ th[t].pc = "au_super"
    /\ \E o \in {"ok"} \cup NetworkErrors :
         LET g == generic_add_user(th[t].attrs, o)
             ok == g.res.kind = "return"
             rec == [th[t] EXCEPT
                        !.userdn = UserEntryDn(th[t].attrs["cn"], self.userdn),
                        !.trace = Append(@, Step("super.add_user", Outcome(g.res),
                            UserEntryDn(th[t].attrs["cn"], self.userdn), "", "",
                            th[t].attrs))]
         IN  /\ dir_users' = g.users
             /\ th' = [th EXCEPT ![t] = add_user_goto(rec, "au_super", ok, g.res.exc)]
    /\ UNCHANGED << role_vars, backend_vars, dir_groups, sessions, ncalls >>

\* lines 232-236
add_user_bind(t) ==
    /\ th[t].pc = "au_bind"
    /\ \E o \in {"ok"} \cup NetworkErrors :
         LET s == Len(sessions) + 1
             rec == [th[t] EXCEPT !.opened = @ \cup {s}, !.ldap_client = s,
                        !.trace = Append(@, Step("_bind", o, "", "", "",
                                                 EmptyMap))]
         IN  /\ sessions' = _bind(sessions, t, o)
             /\ th' = [th EXCEPT ![t] = add_user_goto(rec, "au_bind", o = "ok", o)]
    /\ UNCHANGED << role_vars, backend_vars, dir_vars, ncalls >>

\* lines 238-243
add_user_password(t) ==
    /\ th[t].pc = "au_password"
    /\ \E o \in {"ok"} \cup NetworkErrors :
         LET value == add_user_encoded_password(th[t].password)
             m == modify_s(th[t].userdn, "unicodePwd", value)
             out == IF o = "ok" THEN m.res ELSE o
             rec == [th[t] EXCEPT !.trace =
                        Append(@, Step("modify_s", out, th[t].userdn,
                                       "unicodePwd", value, EmptyMap))]
         IN  /\ dir_users' = IF o = "ok" THEN m.users ELSE dir_users
             /\ sessions' = SessUsed(sessions, ldap_client(t), t)
             /\ th' = [th EXCEPT ![t] =
                          add_user_goto(rec, "au_password", out = "ok", out)]
    /\ UNCHANGED << role_vars, backend_vars, dir_groups, ncalls >>

\* lines 245-249
add_user_enable(t) ==
    /\ th[t].pc = "au_enable"
    /\ \E o \in {"ok"} \cup NetworkErrors :
         LET value == add_user_account_control
             m == modify_s(th[t].userdn, "UserAccountControl", value)
             out == IF o = "ok" THEN m.res ELSE o
             rec == [th[t] EXCEPT !.trace =
                        Append(@, Step("modify_s", out, th[t].userdn,
                                       "UserAccountControl", value, EmptyMap))]
         IN  /\ dir_users' = IF o = "ok" THEN m.users ELSE dir_users
             /\ sessions' = SessUsed(sessions, ldap_client(t), t)
             /\ th' = [th EXCEPT ![t] =
                          add_user_goto(rec, "au_enable", out = "ok", out)]
    /\ UNCHANGED << role_vars, backend_vars, dir_groups, ncalls >>

\* line 251
add_user_unbind(t) ==
    /\ th[t].pc = "au_unbind"
    /\ sessions' = unbind_s(sessions, ldap_client(t), t)
    /\ th' = [th EXCEPT ![t] = Finish(th[t], Returned("None"))]
    /\ UNCHANGED << role_vars, backend_vars, dir_vars, ncalls >>

\* ------------------------------------------------ set_attrs, _set_password

\* line 256: the mapping handed to the generic set_attrs.
set_attrs_attrs(attrs) == DictDel(attrs, "unicodePwd")

\* lines 190-191: ('"' + password + '"').encode('utf-16-le')
_set_password_value(password) ==
    Utf16le((<<QUOTE>> \o password) \o <<QUOTE>>)

\* _set_password taking every name for a common name, whatever by_cn says.
_set_password_dn_always_by_cn(name, by_cn) == UserEntryDn(name, self.userdn)

\* lines 195-201: the DN _set_password modifies.
_set_password_dn(name, by_cn) ==
    IF by_cn THEN UserEntryDn(name, self.userdn) ELSE name

\* set_attrs(username, attrs) is invoked; line 254 chooses the path.
set_attrs_call(t) ==
    /\ CanCall(t)
    /\ \E u \in UserNames, a \in ChangedAttrs :
         th' = [th EXCEPT ![t] =
                   [IdleThread EXCEPT !.op = "set_attrs",
                       !.pc = IF "unicodePwd" \in DOMAIN a THEN "sa_get_user"
                              ELSE "sa_super",
                       !.username = u, !.attrs = a]]
    /\ ncalls' = ncalls + 1
    /\ UNCHANGED << role_vars, backend_vars, dir_vars, sessions >>

\* lines 255-257
set_attrs_get_user(t) ==
    /\ th[t].pc = "sa_get_user"
    /\ \E o \in {"ok"} \cup NetworkErrors :
         LET res == _get_user(th[t].username, o)
             rec == [th[t] EXCEPT
                        !.password = th[t].attrs["unicodePwd"],
                        !.attrs = set_attrs_attrs(th[t].attrs),
                        !.found = IF o = "ok" THEN Found(th[t].username)
                                  ELSE "unknown",
                        !.trace = Append(@, Step("_get_user", Outcome(res),
                                                 "", "", th[t].username, EmptyMap))]
         IN  IF res.kind = "raise"
             THEN th' = [th EXCEPT ![t] = Finish(rec, res)]
             ELSE th' = [th EXCEPT ![t] =
                            [rec EXCEPT !.pc = "sp_bind", !.userdn = res.val]]
    /\ UNCHANGED << role_vars, backend_vars, dir_vars, sessions, ncalls >>

\* lines 190-193, called from line 258
_set_password_bind(t) ==
    /\ th[t].pc = "sp_bind"
    /\ \E o \in {"ok"} \cup NetworkErrors :
         LET s == Len(sessions) + 1
             rec == [th[t] EXCEPT !.opened = @ \cup {s}, !.ldap_client = s,
                        !.trace = Append(@, Step("_bind", o, "", "", "",
                                                 EmptyMap))]
         IN  /\ sessions' = _bind(sessions, t, o)
             /\ IF o = "ok"
                THEN th' = [th EXCEPT ![t] = [rec EXCEPT !.pc = "sp_modify"]]
                ELSE th' = [th EXCEPT ![t] = Finish(rec, Raised(o))]
    /\ UNCHANGED << role_vars, backend_vars, dir_vars, ncalls >>

\* lines 195-207: the modification, then the return of line 207; the
\* statements after it are never executed.
_set_password_modify(t) ==
    /\ th[t].pc = "sp_modify"
    /\ \E o \in {"ok"} \cup NetworkErrors :
         LET value == _set_password_value(th[t].password)
             dn == _set_password_dn(th[t].userdn, FALSE)
             m == modify_s(dn, "unicodePwd", value)
             out == IF o = "ok" THEN m.res ELSE o
             rec == [th[t] EXCEPT !.trace =
                        Append(@, Step("modify_s", out, dn, "unicodePwd",
                                       value, EmptyMap))]
         IN  /\ dir_users' = IF o = "ok" THEN m.users ELSE dir_users
             /\ sessions' = SessUsed(sessions, ldap_client(t), t)
             /\ IF out = "ok"
                THEN th' = [th EXCEPT ![t] = [rec EXCEPT !.pc = "sa_super"]]
                ELSE th' = [th EXCEPT ![t] = Finish(rec, Raised(out))]
    /\ UNCHANGED << role_vars, backend_vars, dir_groups, ncalls >>

\* line 259
set_attrs_super(t) ==
    /\ th[t].pc = "sa_super"
    /\ \E o \in {"ok"} \cup NetworkErrors :
         LET g == generic_set_attrs(th[t].username, th[t].attrs, o)
             rec == [th[t] EXCEPT
                        !.found = IF o = "ok" /\ @ = "unknown"
                                  THEN Found(th[t].username) ELSE @,
                        !.trace = Append(@, Step("super.set_attrs",
                            Outcome(g.res), "", "", th[t].username,
                            th[t].attrs))]
         IN  /\ dir_users' = g.users
             /\ th' = [th EXCEPT ![t] = Finish(rec, g.res)]
    /\ UNCHANGED << role_vars, backend_vars, dir_groups, sessions, ncalls >>

\* ------------------------------------------ add_to_groups, del_from_groups

\* Group resolution as the generic backend does it: every name under the
\* ordinary group container.
_build_groupdn_all_ordinary(groups) ==
    [i \in 1..Len(groups) |-> "cn=" \o groups[i] \o "," \o self.groupdn]

\* lines 180-187
_build_groupdn(groups) ==
    [i \in 1..Len(groups) |->
        IF InList(groups[i], ad_builtin_groups)
        THEN "cn=" \o groups[i] \o "," \o self.builtin
        ELSE "cn=" \o groups[i] \o "," \o self.groupdn]

\* add_to_groups(username, groups) or del_from_groups(username, groups) is
\* invoked.
groups_call(t) ==
    /\ CanCall(t)
    /\ \E u \in UserNames, g \in GroupLists, op \in {"add_to_groups", "del_from_groups"} :
         th' = [th EXCEPT ![t] = [IdleThread EXCEPT !.op = op, !.pc = "grp_super",
                                     !.username = u, !.groups = g]]
    /\ ncalls' = ncalls + 1
    /\ UNCHANGED << role_vars, backend_vars, dir_vars, sessions >>

\* add_to_groups remembering the names it was given in the module's list of
\* built-in groups.
add_to_groups_learns_names(t) ==
    /\ th[t].pc = "grp_super"
    /\ th[t].op = "add_to_groups"
    /\ ad_builtin_groups' = ad_builtin_groups \o th[t].groups
    /\ th' = [th EXCEPT ![t] = Finish(th[t], Returned("None"))]
    /\ UNCHANGED << role_vars, config, constructed, self, dir_vars, sessions, ncalls >>

\* lines 262-263
add_to_groups(t) ==
    /\ th[t].pc = "grp_super"
    /\ th[t].op = "add_to_groups"
    /\ \E o \in {"ok"} \cup NetworkErrors :
         LET ad_groups == _build_groupdn(th[t].groups)
             g == generic_change_groups(th[t].username, ad_groups, TRUE, o)
             rec == [th[t] EXCEPT !.trace =
                        Append(@, Step("super.add_to_groups", Outcome(g.res),
                                       "", "", ad_groups, EmptyMap))]
         IN  /\ dir_groups' = g.groups
             /\ th' = [th EXCEPT ![t] = Finish(rec, g.res)]
    /\ UNCHANGED << role_vars, backend_vars, dir_users, sessions, ncalls >>

\* lines 266-267
del_from_groups(t) ==
    /\ th[t].pc = "grp_super"
    /\ th[t].op = "del_from_groups"
    /\ \E o \in {"ok"} \cup NetworkErrors :
         LET ad_groups == _build_groupdn(th[t].groups)
             g == generic_change_groups(th[t].username, ad_groups, FALSE, o)
             rec == [th[t] EXCEPT !.trace =
                        Append(@, Step("super.del_from_groups", Outcome(g.res),
                                       "", "", ad_groups, EmptyMap))]
         IN  /\ dir_groups' = g.groups
             /\ th' = [th EXCEPT ![t] = Finish(rec, g.res)]
    /\ UNCHANGED << role_vars, backend_vars, dir_users, sessions, ncalls >>

\* ----------------------------------------------------------- specification

Next ==
    \/ __init__
    \/ \E t \in Threads :
         \/ auth_call(t)
         \/ auth_connect(t)
         \/ auth_bind(t)
         \/ auth_unbind(t)
         \/ get_groups_call(t)
         \/ get_groups_get_user(t)
         \/ _search_group_bind(t)
         \/ _search_group_search(t)
         \/ _search_group_unbind(t)
         \/ get_groups_return(t)
         \/ add_user_call(t)
         \/ add_user_prepare(t)
         \/ add_user_super(t)
         \/ add_user_bind(t)
         \/ add_user_password(t)
         \/ add_user_enable(t)
         \/ add_user_unbind(t)
         \/ set_attrs_call(t)
         \/ set_attrs_get_user(t)
         \/ _set_password_bind(t)
         \/ _set_password_modify(t)
         \/ set_attrs_super(t)
         \/ groups_call(t)
         \/ add_to_groups(t)
         \/ del_from_groups(t)

Spec == Init /\ [][Next]_vars

\* ------------------------------------------------------------- role engine
\* The role engine (ldapcherry.roles.Roles) is a second program: it loads a
\* role file into a catalog and resolves selections of role keys against it.
\* It shares no state with the backend.

\* The assignments of a role for one backend.
RoleBackend(attrs, groups) == [attrs |-> attrs, groups |-> groups]

\* The role records a role file is made of.  The second "admin" shares its
\* key with the first; "ops" has the content of "admin" with its groups in
\* another order; "nodn" has no display name and the content of "user";
\* "nobk" has no backend assignments.
RoleRecords ==
    { [key |-> "admin", display_name |-> "Administrators",
       backends |-> [ad |-> RoleBackend([displayName |-> "X"],
                                        <<"Administrators", "Users">>)]],
      [key |-> "user", display_name |-> "Users",
       backends |-> [ad |-> RoleBackend(EmptyMap, <<"Users">>),
                     ldap |-> RoleBackend(EmptyMap, <<"users">>)]],
      [key |-> "admin", display_name |-> "Guests",
       backends |-> [ad |-> RoleBackend([displayName |-> "Y"], <<"Guests">>)]],
      [key |-> "ops", display_name |-> "Operators",
       backends |-> [ad |-> RoleBackend([displayName |-> "X"],
                                        <<"Users", "Administrators">>)]],
      [key |-> "nodn",
       backends |-> [ad |-> RoleBackend(EmptyMap, <<"Users">>),
                     ldap |-> RoleBackend(EmptyMap, <<"users">>)]],
      [key |-> "nobk", display_name |-> "No backends"] }

\* The role files: a path that does not exist, or a file holding up to
\* MaxRoles role records in order.
RoleFiles ==
    {NoRolesFile} \cup
    { [exists |-> TRUE, records |-> r] :
        r \in UNION { [1..n -> RoleRecords] : n \in 0..MaxRoles } }

\* A role record lacks its display name or its backend assignments.
MissingRoleKey(rec) ==
    \/ "display_name" \notin DOMAIN rec
    \/ "backends" \notin DOMAIN rec
    \/ DOMAIN rec.backends = {}

\* The canonical resolved form of a role record: its attribute and group
\* assignments per backend, whatever the order they were written in.
Canonical(rec) ==
    [b \in DOMAIN rec.backends |->
        [attrs |-> rec.backends[b].attrs, groups |-> Range(rec.backends[b].groups)]]

\* A load that tells duplicates apart by key only: a record repeating the
\* content of another is reported as a duplicate key.
RoleDefect_one_duplicate_kind(rec, keys, contents) ==
    IF MissingRoleKey(rec) THEN "MissingKey"
    ELSE IF rec.key \in keys \/ Canonical(rec) \in contents THEN "DuplicateRoleKey"
    ELSE "ok"

\* What the load pass finds wrong with one record, given the keys and the
\* canonical forms of the records before it.
RoleDefect(rec, keys, contents) ==
    IF MissingRoleKey(rec) THEN "MissingKey"
    ELSE IF rec.key \in keys THEN "DuplicateRoleKey"
    ELSE IF Canonical(rec) \in contents THEN "DuplicateRoleContent"
    ELSE "ok"

LoadFailed(e) == [kind |-> "raise", exc |-> e, catalog |-> EmptyMap]
Loaded(catalog) == [kind |-> "catalog", exc |-> "", catalog |-> catalog]

RECURSIVE LoadRecords(_, _, _, _, _)
\* The validating pass over the records from position i on.
LoadRecords(records, i, keys, contents, catalog) ==
    IF i > Len(records) THEN Loaded(catalog)
    ELSE LET rec == records[i]
             d == RoleDefect(rec, keys, contents)
         IN  IF d # "ok" THEN LoadFailed(d)
             ELSE LoadRecords(records, i + 1, keys \cup {rec.key},
                              contents \cup {Canonical(rec)},
                              (rec.key :> rec) @@ catalog)

\* Roles(role_file): the absence of the file is found before any parsing.
LoadFile(file) ==
    IF ~file.exists THEN LoadFailed("MissingRolesFile")
    ELSE LoadRecords(file.records, 1, {}, {}, EmptyMap)

\* Group accumulation that appends every granted group.
GroupsUnion_concatenate(groups, more) == groups \o more

RECURSIVE GroupsUnion(_, _)
\* Group accumulation as a set union that keeps the order of first mention.
GroupsUnion(groups, more) ==
    IF Len(more) = 0 THEN groups
    ELSE GroupsUnion(IF InList(Head(more), groups) THEN groups
                     ELSE Append(groups, Head(more)),
                     Tail(more))

\* One role merged into the accumulator keyed by backend name: its attribute
\* values overwrite earlier ones, its groups are united with earlier ones.
MergeRole(acc, role) ==
    [b \in DOMAIN acc \cup DOMAIN role.backends |->
        IF b \notin DOMAIN role.backends THEN acc[b]
        ELSE LET old == IF b \in DOMAIN acc THEN acc[b]
                        ELSE RoleBackend(EmptyMap, <<>>)
             IN  RoleBackend(role.backends[b].attrs @@ old.attrs,
                             GroupsUnion(old.groups, role.backends[b].groups))]

RECURSIVE ResolveFrom(_, _, _, _)
\* The selected keys from position i on, merged in order.
ResolveFrom(catalog, selected, i, acc) ==
    IF i > Len(selected)
    THEN [kind |-> "return", exc |-> "", selected |-> selected, delta |-> acc]
    ELSE IF selected[i] \notin DOMAIN catalog
    THEN [kind |-> "raise", exc |-> "UnknownRole", selected |-> selected,
          delta |-> EmptyMap]
    ELSE ResolveFrom(catalog, selected, i + 1, MergeRole(acc, catalog[selected[i]]))

\* The selections Resolve is called with: up to MaxSelected different keys,
\* in an order, of the catalog's keys and of one key no catalog has.
Selections(catalog) ==
    LET keys == DOMAIN catalog \cup {"ghost"}
    IN  { s \in UNION { [1..n -> keys] : n \in 0..MaxSelected } :
            \A i, j \in 1..Len(s) : i # j => s[i] # s[j] }

\* Load(source)
Load ==
    /\ roles.kind = "none"
    /\ roles' = LoadFile(role_file)
    /\ UNCHANGED << adapter_vars, role_file, resolved >>

\* Resolve(catalog, selected_role_keys)
Resolve ==
    /\ roles.kind = "catalog"
    /\ \E selected \in Selections(roles.catalog) :
         resolved' = ResolveFrom(roles.catalog, selected, 1, EmptyMap)
    /\ UNCHANGED << adapter_vars, role_file, roles >>

RolesInit ==
    /\ config = [domain |-> <<"example", "com">>, login |-> "administrator",
                 attrslist |-> <<"mail">>]
    /\ constructed = "no"
    /\ self = NoSelf
    /\ ad_builtin_groups = AD_BUILTIN_GROUPS_LIST
    /\ dir_users = InitialUsers(config.domain)
    /\ dir_groups = InitialGroups(config.domain, {})
    /\ sessions = <<>>
    /\ th = [t \in Threads |-> IdleThread]
    /\ ncalls = 0
    /\ role_file \in RoleFiles
    /\ roles = NotLoaded
    /\ resolved = NotResolved

RolesNext == Load \/ Resolve

RolesSpec == RolesInit /\ [][RolesNext]_vars

\* ------------------------------------------------------------------ claims

Done(t, op) == th[t].op = op /\ th[t].pc = "done"

\* C1: when an adapter operation that opens directory sessions ends, by
\* return or by error, every session it opened has been closed exactly once.
C1_EverySessionClosedOnce ==
    \A t \in Threads :
        th[t].pc = "done" =>
            \A s \in th[t].opened : sessions[s].closes = 1

\* The steps of a complete add_user, in the order of the claim.
AddUserSteps ==
    << [step |-> "inject", attr |-> "userPrincipalName"],
       [step |-> "super.add_user", attr |-> ""],
       [step |-> "_bind", attr |-> ""],
       [step |-> "modify_s", attr |-> "unicodePwd"],
       [step |-> "modify_s", attr |-> "UserAccountControl"] >>

\* C2: the steps of every add_user are, in this order, the injection of
\* userPrincipalName = <sAMAccountName>@<domain>, the generic creation, the
\* replacement of the password and the replacement of the account flags; a
\* step is issued only if every step before it succeeded.
C2_AddUserOrder ==
    \A t \in Threads :
        th[t].op = "add_user" =>
            LET tr == th[t].trace
            IN  /\ Len(tr) <= Len(AddUserSteps)
                /\ \A i \in 1..Len(tr) :
                      /\ tr[i].step = AddUserSteps[i].step
                      /\ tr[i].attr = AddUserSteps[i].attr
                      /\ i < Len(tr) => tr[i].ok
                /\ Len(tr) >= 1 =>
                      tr[1].value = th[t].attrs["sAMAccountName"] \o "@"
                                    \o Join(config.domain, ".")
                /\ Len(tr) >= 2 =>
                      tr[2].attrs["userPrincipalName"] = tr[1].value

\* A complete add_user: all five steps issued and the call returned.
C2_Witness ==
    \E t \in Threads :
        /\ Done(t, "add_user")
        /\ th[t].ret.kind = "return"
        /\ Len(th[t].trace) = 5
        /\ dir_users[th[t].userdn].UserAccountControl = "512"

\* A follow-up modification of this add_user failed after the creation.
FollowUpFailed(t) ==
    /\ Done(t, "add_user")
    /\ \E i \in 1..Len(th[t].trace) :
          /\ th[t].trace[i].step = "modify_s"
          /\ ~th[t].trace[i].ok

\* C3: when the password or the account-flags modification of add_user
\* fails after the creation, the created entry is still in the directory and
\* add_user raises the error instead of returning.
C3_PartialProvisioningSurfaced ==
    \A t \in Threads :
        FollowUpFailed(t) =>
            /\ th[t].ret.kind = "raise"
            /\ th[t].ret.exc = th[t].trace[Len(th[t].trace)].err
            /\ th[t].userdn \in DOMAIN dir_users
            /\ dir_users[th[t].userdn].sAMAccountName = th[t].attrs["sAMAccountName"]

\* The account-flags modification failed: the entry has its password and is
\* still disabled.
C3_Witness ==
    \E t \in Threads :
        /\ FollowUpFailed(t)
        /\ Len(th[t].trace) = 5
        /\ dir_users[th[t].userdn].UserAccountControl = "546"
        /\ dir_users[th[t].userdn].unicodePwd # <<>>

\* The outcome of the bind of a finished auth.
AuthOutcome(t) == th[t].trace[Len(th[t].trace)].err

\* C4: auth returns True when the bind succeeds, returns False when the
\* directory rejects the credentials, and raises on every other failure.
C4_AuthOutcomes ==
    \A t \in Threads :
        Done(t, "auth") =>
            /\ AuthOutcome(t) = "ok" =>
                  th[t].ret.kind = "return" /\ th[t].ret.val = TRUE
            /\ AuthOutcome(t) = "INVALID_CREDENTIALS" =>
                  th[t].ret.kind = "return" /\ th[t].ret.val = FALSE
            /\ AuthOutcome(t) \notin {"ok", "INVALID_CREDENTIALS"} =>
                  th[t].ret.kind = "raise" /\ th[t].ret.exc = AuthOutcome(t)

\* One auth was rejected and returned False, another met an unreachable
\* server and raised.
C4_Witness ==
    \E t, u \in Threads :
        /\ Done(t, "auth") /\ AuthOutcome(t) = "INVALID_CREDENTIALS"
        /\ th[t].ret.kind = "return"
        /\ Done(u, "auth") /\ AuthOutcome(u) = "SERVER_DOWN"
        /\ th[u].ret.kind = "raise"

\* C5: construction fails with MissingAttr exactly when the attribute list
\* lacks 'cn' or 'unicodePwd', and no session has been opened when it fails.
C5_RequiredAttributes ==
    constructed # "no" =>
        /\ constructed = "MissingAttr" <=>
              ~({"cn", "unicodePwd"} \subseteq Range(config.attrslist))
        /\ constructed = "MissingAttr" => sessions = <<>>

\* Construction failed for a list that declares 'cn' but not 'unicodePwd'.
C5_Witness ==
    /\ constructed = "MissingAttr"
    /\ "cn" \in Range(config.attrslist)
    /\ "unicodePwd" \notin Range(config.attrslist)

\* The DN the claim gives a group name, spelled out from the configured
\* domain.
ExpectedGroupDn(name) ==
    LET base == "dc=" \o Join(config.domain, ",DC=")
    IN  IF name \in Range(AD_BUILTIN_GROUPS_LIST)
        THEN "cn=" \o name \o ",CN=Builtin," \o base
        ELSE "cn=" \o name \o ",OU=Users,OU=" \o config.domain[1] \o "," \o base

\* C6: add_to_groups and del_from_groups hand the generic path one DN per
\* group name, in input order: under CN=Builtin,<base-dn> exactly for the
\* names of AD_BUILTIN_GROUPS, under the ordinary group container otherwise.
C6_GroupDnRouting ==
    \A t \in Threads :
        (th[t].op \in {"add_to_groups", "del_from_groups"} /\ th[t].pc = "done") =>
            LET dns == th[t].trace[1].value
                names == th[t].groups
            IN  /\ Len(dns) = Len(names)
                /\ \A i \in 1..Len(names) : dns[i] = ExpectedGroupDn(names[i])
                /\ (config.domain = <<"example", "com">>
                    /\ names = <<"Administrators", "users">>) =>
                      dns = << "cn=Administrators,CN=Builtin,dc=example,DC=com",
                               "cn=users,OU=Users,OU=example,dc=example,DC=com" >>

\* add_to_groups of an ordinary and a built-in name succeeded: the user is
\* now a member of the built-in Users group.
C6_Witness ==
    \E t \in Threads :
        /\ Done(t, "add_to_groups")
        /\ th[t].groups = <<"devs", "Users", "devs">>
        /\ th[t].ret.kind = "return"
        /\ \E i \in 1..Len(dir_groups) :
              /\ dir_groups[i].dn = th[t].trace[1].value[2]
              /\ dir_groups[i].parent = self.builtin
              /\ dir_groups[i].member # {}

\* The names of the groups of both containers that list the user.
GroupsListing(userdn) ==
    { dir_groups[i].cn : i \in { j \in 1..Len(dir_groups) :
          /\ dir_groups[j].parent \in {self.groupdn, self.builtin}
          /\ userdn \in dir_groups[j].member } }

\* C7: get_groups returns the union of the user's memberships in the
\* ordinary and the builtin container, and no group name twice (stated for
\* a get_groups that is the only invocation so far, so that the directory is
\* the one it searched).
C7_GroupsUnionNoDuplicates ==
    \A t \in Threads :
        (Done(t, "get_groups") /\ th[t].ret.kind = "return" /\ ncalls = 1) =>
            LET names == th[t].ret.val
            IN  /\ Range(names) = GroupsListing(th[t].userdn)
                /\ \A i, j \in 1..Len(names) : i # j => names[i] # names[j]

\* The 16-bit units of a UTF-16-LE byte string, and the text they encode.
Utf16leUnits(bytes) ==
    [i \in 1..(Len(bytes) \div 2) |-> bytes[2 * i - 1] + 256 * bytes[2 * i]]

RECURSIVE Utf16Text(_)
Utf16Text(units) ==
    IF Len(units) = 0 THEN <<>>
    ELSE IF Len(units) >= 2 /\ units[1] \in 55296..56319
    THEN << 65536 + (units[1] - 55296) * 1024 + (units[2] - 56320) >>
         \o Utf16Text(Tail(Tail(units)))
    ELSE << units[1] >> \o Utf16Text(Tail(units))

\* A byte string that is the UTF-16-LE form of a text in double quotes.
IsQuotedUtf16(bytes, text) ==
    /\ Len(bytes) % 2 = 0
    /\ Utf16Text(Utf16leUnits(bytes)) = (<<34>> \o text) \o <<34>>

\* C8: the mapping delegated to the generic add_user and set_attrs never
\* holds 'unicodePwd'; every modification of 'unicodePwd' carries the
\* password in double quotes encoded as UTF-16-LE, and no entry holds a
\* password in any other form.
C8_PasswordOnlyAsQuotedUtf16 ==
    /\ \A t \in Threads : \A i \in 1..Len(th[t].trace) :
          LET st == th[t].trace[i]
          IN  /\ st.step \in {"super.add_user", "super.set_attrs"} =>
                    "unicodePwd" \notin DOMAIN st.attrs
              /\ (st.step = "modify_s" /\ st.attr = "unicodePwd") =>
                    IsQuotedUtf16(st.value, th[t].password)
    /\ \A dn \in DOMAIN dir_users :
          \/ dir_users[dn].unicodePwd = <<>>
          \/ \E p \in Passwords : IsQuotedUtf16(dir_users[dn].unicodePwd, p)

\* add_user wrote a password with a character beyond the basic plane: the
\* entry holds its quoted UTF-16-LE bytes.
C8_Witness ==
    \E t \in Threads :
        /\ Done(t, "add_user")
        /\ th[t].ret.kind = "return"
        /\ th[t].password = <<233, 128273>>
        /\ dir_users[th[t].userdn].unicodePwd =
              <<34, 0, 233, 0, 61, 216, 17, 221, 34, 0>>

C10_NoErrorSuppressed ==
    \A t \in Threads : \A i \in 1..Len(th[t].trace) :
        ~th[t].trace[i].ok =>
            /\ th[t].pc = "done"
            /\ i = Len(th[t].trace)
            /\ \/ /\ th[t].ret.kind = "raise"
                  /\ th[t].ret.exc = th[t].trace[i].err
               \/ /\ th[t].op = "auth"
                  /\ th[t].trace[i].err = "INVALID_CREDENTIALS"
                  /\ th[t].ret.kind = "return"
                  /\ th[t].ret.val = FALSE

\* get_groups found groups in the ordinary container, then its search of
\* the builtin container failed and it raised.
C10_Witness ==
    \E t \in Threads :
        /\ Done(t, "get_groups")
        /\ th[t].ret.kind = "raise"
        /\ th[t].groups # <<>>
        /\ th[t].which = 2
        /\ ~th[t].trace[Len(th[t].trace)].ok
        /\ th[t].trace[Len(th[t].trace)].step = "search_s"

\* C11: under every interleaving of the operations of the threads, a
\* directory session is touched (bind, search, modify, unbind) only by the
\* thread that opened it, the session an invocation works on is one that
\* invocation opened, and no session is held by two invocations.
C11_SessionOwnedByOpener ==
    /\ \A s \in 1..Len(sessions) : sessions[s].users = {sessions[s].owner}
    /\ \A t \in Threads :
          /\ \A s \in th[t].opened : sessions[s].owner = t
          /\ th[t].ldap_client # 0 => th[t].ldap_client \in th[t].opened
    /\ \A t, u \in Threads : t # u => th[t].opened \cap th[u].opened = {}

\* Two invocations run at once, each between its bind and its unbind: an
\* add_user about to modify the password and a get_groups about to search,
\* each on its own bound session.
C11_Witness ==
    \E t, u \in Threads :
        /\ th[t].pc = "au_password"
        /\ th[u].pc = "sg_search"
        /\ th[t].ldap_client # th[u].ldap_client
        /\ sessions[th[t].ldap_client].state = "Bound"
        /\ sessions[th[u].ldap_client].state = "Bound"

\* C12: once the backend is constructed, no step of any operation changes a
\* configuration field of the Backend (domain, login, bind identity, user,
\* group and builtin containers, key attributes, attribute list), the
\* configuration it was built from, or the list of built-in groups.
C12_ConfigurationFrame ==
    [][constructed = "ok" =>
          /\ self' = self
          /\ config' = config
          /\ ad_builtin_groups' = ad_builtin_groups
          /\ constructed' = constructed]_vars

\* An operation has changed the directory (del_from_groups took the user
\* out of a group) and the Backend still holds what the constructor set.
C12_Witness ==
    \E t \in Threads :
        /\ Done(t, "del_from_groups")
        /\ th[t].ret.kind = "return"
        /\ \E m \in InitialMemberships(config.domain) :
              dir_groups # InitialGroups(config.domain, m)
        /\ self.binddn = "administrator@" \o Join(config.domain, ".")
        /\ ad_builtin_groups = AD_BUILTIN_GROUPS_LIST

\* The configured domain as dotted text, written out.
DottedDomain ==
    IF config.domain = <<"example", "com">> THEN "example.com"
    ELSE "dc.ldapcherry.org"

\* C13: every bind of auth is made with the identity <username>@<domain>,
\* the user name as the caller gave it; the service bind identity of the
\* backend is <login>@<domain>; neither is the distinguished name of an
\* entry.
C13_BindsAsPrincipalName ==
    /\ constructed # "no" =>
          /\ self.binddn = config.login \o "@" \o DottedDomain
          /\ self.binddn \notin DOMAIN dir_users
    /\ \A t \in Threads :
          th[t].op = "auth" =>
              \A i \in 1..Len(th[t].trace) :
                  th[t].trace[i].step = "simple_bind_s" =>
                      /\ th[t].trace[i].dn = th[t].username \o "@" \o DottedDomain
                      /\ th[t].trace[i].dn \notin DOMAIN dir_users
                      /\ th[t].trace[i].dn #
                            "CN=" \o th[t].username \o "," \o self.userdn

\* auth of alice with her password bound as alice@example.com and returned
\* True.
C13_Witness ==
    \E t \in Threads :
        /\ Done(t, "auth")
        /\ th[t].ret.kind = "return"
        /\ th[t].ret.val = TRUE
        /\ th[t].trace[1].dn = "alice@example.com"

\* The defects of a role file, each stated on the file itself.
FileMissing == ~role_file.exists
HasMissingKey ==
    \E i \in 1..Len(role_file.records) :
        \/ "display_name" \notin DOMAIN role_file.records[i]
        \/ "backends" \notin DOMAIN role_file.records[i]
HasDuplicateKey ==
    \E i, j \in 1..Len(role_file.records) :
        i < j /\ role_file.records[i].key = role_file.records[j].key
\* The content of a record as the set of its (backend, attribute, value) and
\* (backend, group) assignments.
RoleContent(rec) ==
    IF "backends" \notin DOMAIN rec THEN {}
    ELSE UNION { { <<b, "attr", a, rec.backends[b].attrs[a]>> :
                     a \in DOMAIN rec.backends[b].attrs }
                 \cup { <<b, "group", g, "">> : g \in Range(rec.backends[b].groups) } :
                 b \in DOMAIN rec.backends }
HasDuplicateContent ==
    \E i, j \in 1..Len(role_file.records) :
        /\ i < j
        /\ "backends" \in DOMAIN role_file.records[i]
        /\ "backends" \in DOMAIN role_file.records[j]
        /\ RoleContent(role_file.records[i]) = RoleContent(role_file.records[j])

\* C14: loading a role file ends with the catalog or with one of four error
\* kinds, each kind only for its own defect: MissingRolesFile exactly for a
\* path that does not exist, MissingKey only for a record without display
\* name or backends, DuplicateRoleKey only for two records with one key,
\* DuplicateRoleContent only for two records of identical content; a file
\* with one kind of defect fails with that kind, a file with none loads.
C14_LoadErrorKinds ==
    roles.kind # "none" =>
        /\ roles.kind \in {"catalog", "raise"}
        /\ roles.kind = "raise" =>
              roles.exc \in {"MissingRolesFile", "MissingKey", "DuplicateRoleKey",
                             "DuplicateRoleContent"}
        /\ roles.exc = "MissingRolesFile" <=> FileMissing
        /\ roles.exc = "MissingKey" => HasMissingKey
        /\ roles.exc = "DuplicateRoleKey" => HasDuplicateKey
        /\ roles.exc = "DuplicateRoleContent" => HasDuplicateContent
        /\ (HasMissingKey /\ ~HasDuplicateKey /\ ~HasDuplicateContent) =>
              roles.exc = "MissingKey"
        /\ (HasDuplicateKey /\ ~HasMissingKey /\ ~HasDuplicateContent) =>
              roles.exc = "DuplicateRoleKey"
        /\ (HasDuplicateContent /\ ~HasMissingKey /\ ~HasDuplicateKey) =>
              roles.exc = "DuplicateRoleContent"
        /\ roles.kind = "catalog" <=>
              ~(FileMissing \/ HasMissingKey \/ HasDuplicateKey \/ HasDuplicateContent)

\* A file of three complete records with three keys, two of them with the
\* same content written in another order, failed with DuplicateRoleContent.
C14_Witness ==
    /\ roles.exc = "DuplicateRoleContent"
    /\ Len(role_file.records) = 3
    /\ ~HasMissingKey
    /\ ~HasDuplicateKey
    /\ \E i, j \in 1..3 :
          /\ role_file.records[i].key = "admin"
          /\ role_file.records[j].key = "ops"

\* A valid role file: it exists, every record has display name and backends,
\* no two records share a key or have identical content.
ValidRoleFile ==
    ~(FileMissing \/ HasMissingKey \/ HasDuplicateKey \/ HasDuplicateContent)

\* The records of the role file that a selection names.
SelectedRecords(selected) ==
    { i \in 1..Len(role_file.records) : role_file.records[i].key \in Range(selected) }

\* C15: a valid role file loads into a catalog of exactly its keys, and
\* Resolve over any selection of its keys returns, for every backend one of
\* the selected roles names, the set union of the groups those roles grant
\* on that backend, no group twice, and nothing for any other backend.
C15_ResolveIsGroupUnion ==
    /\ (roles.kind # "none" /\ ValidRoleFile) =>
          /\ roles.kind = "catalog"
          /\ DOMAIN roles.catalog =
                { role_file.records[i].key : i \in 1..Len(role_file.records) }
    /\ (resolved.kind # "none" /\ ValidRoleFile
        /\ Range(resolved.selected) \subseteq DOMAIN roles.catalog) =>
          LET sel == SelectedRecords(resolved.selected)
              bs == UNION { DOMAIN role_file.records[i].backends : i \in sel }
              granted(b) ==
                  UNION { Range(role_file.records[i].backends[b].groups) :
                            i \in { k \in sel : b \in DOMAIN role_file.records[k].backends } }
          IN  /\ resolved.kind = "return"
              /\ DOMAIN resolved.delta = bs
              /\ \A b \in bs :
                    LET gs == resolved.delta[b].groups
                    IN  /\ Range(gs) = granted(b)
                        /\ \A i, j \in 1..Len(gs) : i # j => gs[i] # gs[j]

\* Two selected roles both grant the group Users on the backend ad: the
\* delta has it once, with Administrators from the second role after it.
C15_Witness ==
    /\ resolved.kind = "return"
    /\ resolved.selected = <<"user", "ops">>
    /\ resolved.delta["ad"].groups = <<"Users", "Administrators">>
    /\ resolved.delta["ldap"].groups = <<"users">>

\* The entry this add_user created: its generic creation succeeded.
Created(t) ==
    /\ th[t].op = "add_user"
    /\ Len(th[t].trace) >= 2
    /\ th[t].trace[2].step = "super.add_user"
    /\ th[t].trace[2].ok

\* C16: add_user issues the enabling modification of the account flags only
\* after its password modification succeeded, on the same entry; an entry
\* add_user created whose flags say enabled holds the password it was given.
C16_EnabledOnlyWithPassword ==
    \A t \in Threads :
        th[t].op = "add_user" =>
            /\ \A i \in 1..Len(th[t].trace) :
                  th[t].trace[i].attr = "UserAccountControl" =>
                      \E j \in 1..(i - 1) :
                          /\ th[t].trace[j].step = "modify_s"
                          /\ th[t].trace[j].attr = "unicodePwd"
                          /\ th[t].trace[j].ok
                          /\ th[t].trace[j].dn = th[t].trace[i].dn
            /\ (Created(t) /\ dir_users[th[t].userdn].UserAccountControl = "512") =>
                  dir_users[th[t].userdn].unicodePwd # <<>>

\* The password modification of an add_user failed: the call ended there,
\* no enabling modification was issued and the entry is still disabled and
\* without a password.
C16_Witness ==
    \E t \in Threads :
        /\ Done(t, "add_user")
        /\ Created(t)
        /\ Len(th[t].trace) = 4
        /\ ~th[t].trace[4].ok
        /\ th[t].trace[4].attr = "unicodePwd"
        /\ dir_users[th[t].userdn].UserAccountControl = "546"
        /\ dir_users[th[t].userdn].unicodePwd = <<>>

\* The steps of a set_attrs that was given a password, in order.
SetPasswordSteps ==
    << [step |-> "_get_user", attr |-> ""],
       [step |-> "_bind", attr |-> ""],
       [step |-> "modify_s", attr |-> "unicodePwd"],
       [step |-> "super.set_attrs", attr |-> ""] >>

\* The set_attrs of thread t was called with a mapping that has 'unicodePwd'.
CalledWithPassword(t) ==
    "unicodePwd" \in DOMAIN th[t].attrs \/ th[t].password # <<>>

\* C17: set_attrs with a mapping that has 'unicodePwd' looks up the user's
\* DN, binds, replaces the password of the entry of that DN, and delegates
\* the rest of the mapping to the generic set_attrs, each step only after
\* the one before succeeded; without 'unicodePwd' its only step is the
\* delegation of the mapping as it was given.
C17_SetAttrsPasswordFirst ==
    \A t \in Threads :
        th[t].op = "set_attrs" =>
            LET tr == th[t].trace
            IN  IF CalledWithPassword(t)
                THEN /\ Len(tr) <= Len(SetPasswordSteps)
                     /\ \A i \in 1..Len(tr) :
                           /\ tr[i].step = SetPasswordSteps[i].step
                           /\ tr[i].attr = SetPasswordSteps[i].attr
                           /\ i < Len(tr) => tr[i].ok
                     /\ Len(tr) >= 3 =>
                           /\ tr[3].dn \in DOMAIN dir_users
                           /\ dir_users[tr[3].dn].sAMAccountName = th[t].username
                     /\ Len(tr) >= 4 =>
                           \E a \in ChangedAttrs :
                               /\ "unicodePwd" \in DOMAIN a
                               /\ DOMAIN tr[4].attrs = DOMAIN a \ {"unicodePwd"}
                               /\ \A k \in DOMAIN tr[4].attrs : tr[4].attrs[k] = a[k]
                ELSE /\ Len(tr) <= 1
                     /\ \A i \in 1..Len(tr) :
                           /\ tr[i].step = "super.set_attrs"
                           /\ tr[i].attrs \in ChangedAttrs
                           /\ tr[i].attrs = th[t].attrs

\* A set_attrs with a password ran all four steps: the entry holds the new
\* password and the new mail address.
C17_Witness ==
    \E t \in Threads :
        /\ Done(t, "set_attrs")
        /\ th[t].ret.kind = "return"
        /\ Len(th[t].trace) = 4
        /\ dir_users[th[t].userdn].unicodePwd =
              <<34, 0, 233, 0, 61, 216, 17, 221, 34, 0>>
        /\ dir_users[th[t].userdn].mail = "a@example.com"

\* str(n) for a natural number: its decimal digits.
DecimalDigit(d) ==
    CASE d = 0 -> "0" [] d = 1 -> "1" [] d = 2 -> "2" [] d = 3 -> "3"
      [] d = 4 -> "4" [] d = 5 -> "5" [] d = 6 -> "6" [] d = 7 -> "7"
      [] d = 8 -> "8" [] d = 9 -> "9"

RECURSIVE Decimal(_)
Decimal(n) ==
    IF n < 10 THEN DecimalDigit(n)
    ELSE Decimal(n \div 10) \o DecimalDigit(n % 10)

\* The bit of a one-bit flag is set in a value.
HasFlag(value, flag) == (value \div flag) % 2 = 1

\* Every named flag is one bit of a 32-bit value, and no two are the same.
FlagsAreDistinctBits ==
    /\ \A i \in 1..Len(UserAccountControlFlags) :
          \E k \in 0..31 : UserAccountControlFlags[i] = 2 ^ k
    /\ \A i, j \in 1..Len(UserAccountControlFlags) :
          i # j => UserAccountControlFlags[i] # UserAccountControlFlags[j]

\* C18: the account flags add_user writes are the decimal text of
\* NORMAL_ACCOUNT, which is 512 (0x0200) and has the ACCOUNTDISABLE bit
\* (0x0002) clear; every named flag constant is a single bit below 2^32 and
\* no two constants are the same bit.
C18_FlagsValue ==
    /\ \A t \in Threads :
          th[t].op = "add_user" =>
              \A i \in 1..Len(th[t].trace) :
                  th[t].trace[i].attr = "UserAccountControl" =>
                      th[t].trace[i].value = Decimal(NORMAL_ACCOUNT)
    /\ NORMAL_ACCOUNT = 512
    /\ ACCOUNTDISABLE = 2
    /\ ~HasFlag(NORMAL_ACCOUNT, ACCOUNTDISABLE)
    /\ FlagsAreDistinctBits

\* add_user has just written the flags of the entry it created, and the
\* session it used is still open.
C18_Witness ==
    \E t \in Threads :
        /\ th[t].op = "add_user"
        /\ th[t].pc = "au_unbind"
        /\ th[t].trace[5].attr = "UserAccountControl"
        /\ th[t].trace[5].ok
        /\ dir_users[th[t].userdn].UserAccountControl = "512"

====
